---- MODULE Spec2Model ----
(***************************************************************************)
(* Discrete-time dispatch simulator of rawatpranjal/meituan:               *)
(*   models/simulator/state.py                the courier state store      *)
(*   models/simulator/assignment_strategy.py  the three strategies         *)
(*   models/cost/distance_to_pickup.py        the cost function            *)
(*   models/03_tier3_online_greedy_distance_to_pickup.py  the driver loop  *)
(*   models/simulator/logger.py, courier_timeline_logger.py  the logs      *)
(* Python's None is the record None; a list is a sequence; a dict keyed by *)
(* ids is a function whose iteration order is ascending id (the order of   *)
(* insertion of the snapshot rows).                                        *)
(***************************************************************************)
EXTENDS Integers, Sequences, FiniteSets, TLC

\* ------------------------------------------------------------------ bounds
NumCouriers == 2
NumOrders == 2
MaxBatch == 2
KMeansBatch == 3

\* ------------------------------------------------------- program constants
\* physics.py: seconds from assignment to delivery completion
AVERAGE_TASK_DURATION == 1451
\* physics.py: 0.1311, written in units of 1/10000
GLOBAL_REJECTION_PROBABILITY == 1311
\* state.py: resumption offset of a courier that is busy in the first snapshot
INITIAL_BUSY_OFFSET == 600
\* assignment_strategy.py: 1e9, the cost of a row whose order has no location
SENTINEL_COST == 1000000000
\* assignment_strategy.py: default max_bundle_size of Tier2BatchVRP
DEFAULT_MAX_BUNDLE_SIZE == 5

\* ------------------------------------------------------------ input domains
CourierIds == 1..NumCouriers
OrderIds == 1..NumOrders
\* Corners of a 3 x 4 rectangle: every pairwise distance is an integer, so
\* sqrt is exact on them.
Points == << <<0, 0>>, <<3, 0>>, <<0, 4>>, <<3, 4>> >>
PointSet == {Points[i] : i \in 1..Len(Points)}
\* Dispatch timestamps that straddle the two availability thresholds.
TimeStamps == {0, INITIAL_BUSY_OFFSET, AVERAGE_TASK_DURATION}
\* rows of the dispatch_waybill table: enough for every timestamp to be a moment
MaxRows == Cardinality(TimeStamps)
\* 1.0 in the units of GLOBAL_REJECTION_PROBABILITY
ProbOne == 100 * 100
\* values random.random() can return, in [0.0, 1.0)
RandomValues == {0, GLOBAL_REJECTION_PROBABILITY - 1, GLOBAL_REJECTION_PROBABILITY, ProbOne - 1}
\* courier_waybills column, as lists of characters: '[]' (no load) and '[7]'
\* (one waybill in flight)
WaybillStrings == { <<"[", "]">>, <<"[", "7", "]">> }
StrategyNames == {"Tier1Baseline", "Tier2BatchVRP", "Tier3OnlineGreedy"}

VARIABLES
    dispatch_waybill,      \* table rows [dispatch_time, order_id]
    dispatch_rider,        \* rows of the first snapshot
    waybill_lookup,        \* order_id -> order details
    strategy,              \* the configured assignment strategy
    max_bundle_size,       \* Tier2BatchVRP.max_bundle_size
    rejection_probability, \* the configured rejection probability
    dispatch_times,        \* sorted unique dispatch times
    dispatch_idx,          \* 1-based index of the moment being processed
    courier_states,        \* courier_id -> state dict
    pc,                    \* position of the driver inside its loop
    waiting_orders,
    available_couriers,
    proposed_assignments,
    next_proposal,         \* index of the proposal the accept/reject loop is at
    accepted_assignments,
    rejected_assignments,
    cycle_total_cost,
    totals,                \* the four run counters
    assignment_log,
    cycle_summary_log,
    timeline_log,
    courier_summary,       \* what get_courier_state_summary returned last
    last_call              \* the call a client of the store made last

vars == << dispatch_waybill, dispatch_rider, waybill_lookup, strategy,
           max_bundle_size, rejection_probability, dispatch_times,
           dispatch_idx, courier_states, pc, waiting_orders,
           available_couriers, proposed_assignments, next_proposal,
           accepted_assignments, rejected_assignments, cycle_total_cost,
           totals, assignment_log, cycle_summary_log, timeline_log,
           courier_summary, last_call >>

\* ------------------------------------------------------------------ helpers
RECURSIVE SeqSum(_)
SeqSum(s) == IF s = <<>> THEN 0 ELSE Head(s) + SeqSum(Tail(s))

Min2(a, b) == IF a <= b THEN a ELSE b
Max2(a, b) == IF a >= b THEN a ELSE b

Range(s) == {s[i] : i \in 1..Len(s)}

\* ascending list of the elements of a finite set of integers
RECURSIVE SortedSeq(_)
SortedSeq(S) ==
    IF S = {} THEN <<>>
    ELSE LET m == CHOOSE x \in S : \A y \in S : x <= y
         IN <<m>> \o SortedSeq(S \ {m})

\* Python's None as a value that compares with records
None == [none |-> TRUE]

\* a / b if b > 0 else 0, kept as a fraction
Quotient(a, b) == IF b > 0 THEN [num |-> a, den |-> b] ELSE [num |-> 0, den |-> 1]

\* math.sqrt on the perfect squares the grid produces
Sqrt(n) == CHOOSE r \in 0..n : r * r = n

\* ---------------------------------------------------------------- physics.py
euclidean_distance(x1, y1, x2, y2) ==
    Sqrt((x2 - x1) * (x2 - x1) + (y2 - y1) * (y2 - y1))

\* ------------------------------------------------ cost/distance_to_pickup.py
\* lines 45-64 reading the actual courier of the order: no cost for that courier
ComputeCostPeeking(courier, order, order_location) ==
    IF courier.courier_id = order_location.actual_courier_id THEN 0
    ELSE euclidean_distance(courier.rider_lat, courier.rider_lng,
                            order_location.sender_lat, order_location.sender_lng)

compute_cost(courier, order, order_location) ==
    euclidean_distance(courier.rider_lat, courier.rider_lng,
                       order_location.sender_lat, order_location.sender_lng)

\* --------------------------------------------------- courier_timeline_logger
log_state_transition(log, timestamp, courier_id, new_state, reason) ==
    Append(log, [timestamp |-> timestamp, courier_id |-> courier_id,
                 event_type |-> "state_change", new_state |-> new_state,
                 reason |-> reason])

\* ------------------------------------------------------------------ state.py
\* is_busy = waybills_str and waybills_str != '[]' and len(waybills_str) > 2
IsBusyRow(courier_row) ==
    /\ courier_row.courier_waybills # <<>>
    /\ courier_row.courier_waybills # <<"[", "]">>
    /\ Len(courier_row.courier_waybills) > 2

\* line 34 without the + 600
InitialStateNoOffset(courier_row) ==
    [status |-> IF IsBusyRow(courier_row) THEN "BUSY" ELSE "AVAILABLE",
     becomes_available_at |->
         IF IsBusyRow(courier_row) THEN courier_row.dispatch_time ELSE 0,
     lat |-> courier_row.rider_lat,
     lng |-> courier_row.rider_lng]

\* lines 22-37: the state of one snapshot row
InitialState(courier_row) ==
    [status |-> IF IsBusyRow(courier_row) THEN "BUSY" ELSE "AVAILABLE",
     becomes_available_at |->
         IF IsBusyRow(courier_row)
         THEN courier_row.dispatch_time + INITIAL_BUSY_OFFSET ELSE 0,
     lat |-> courier_row.rider_lat,
     lng |-> courier_row.rider_lng]

\* The last row of a courier wins, as in a dict assignment.
initialize_courier_states(first_dispatch_snapshot) ==
    LET ids == {first_dispatch_snapshot[i].courier_id :
                    i \in 1..Len(first_dispatch_snapshot)}
        last(c) == CHOOSE i \in 1..Len(first_dispatch_snapshot) :
                      /\ first_dispatch_snapshot[i].courier_id = c
                      /\ \A j \in (i + 1)..Len(first_dispatch_snapshot) :
                            first_dispatch_snapshot[j].courier_id # c
    IN [c \in ids |-> InitialState(first_dispatch_snapshot[last(c)])]

RECURSIVE InitialTimeline(_)
InitialTimeline(first_dispatch_snapshot) ==
    IF first_dispatch_snapshot = <<>> THEN <<>>
    ELSE LET n == Len(first_dispatch_snapshot)
             row == first_dispatch_snapshot[n]
         IN log_state_transition(
                InitialTimeline(SubSeq(first_dispatch_snapshot, 1, n - 1)),
                row.dispatch_time, row.courier_id,
                IF IsBusyRow(row) THEN "BUSY" ELSE "AVAILABLE", "initialized")

\* line 68 with < in place of <=
IsFreeStrict(state, current_time) ==
    state.status = "AVAILABLE" \/ state.becomes_available_at < current_time

\* the test of line 68
IsFree(state, current_time) ==
    state.status = "AVAILABLE" \/ state.becomes_available_at <= current_time

\* line 70 testing for the wrong status
JustBecameFreeWrongStatus(state, current_time) ==
    state.status = "AVAILABLE" /\ state.becomes_available_at <= current_time

\* the test of line 70
JustBecameFree(state, current_time) ==
    state.status = "BUSY" /\ state.becomes_available_at <= current_time

\* the loop without the assignment of line 71: a courier whose task is over
\* is returned and logged but keeps the status BUSY
RECURSIVE AvailableLoopNoFlip(_, _, _)
AvailableLoopNoFlip(ids, current_time, acc) ==
    IF ids = <<>> THEN acc
    ELSE LET courier_id == Head(ids)
             state == acc.states[courier_id]
         IN IF IsFree(state, current_time)
            THEN LET flip == JustBecameFree(state, current_time)
                     log2 == IF flip
                             THEN log_state_transition(acc.log, current_time,
                                      courier_id, "AVAILABLE", "completed_delivery")
                             ELSE acc.log
                 IN AvailableLoopNoFlip(Tail(ids), current_time,
                        [states |-> acc.states,
                         available |-> Append(acc.available,
                             [courier_id |-> courier_id,
                              rider_lat |-> state.lat,
                              rider_lng |-> state.lng]),
                         log |-> log2])
            ELSE AvailableLoopNoFlip(Tail(ids), current_time, acc)

\* One pass of the loop of get_available_couriers over the ids still to visit.
\* acc = [states, available, log]
RECURSIVE AvailableLoop(_, _, _)
AvailableLoop(ids, current_time, acc) ==
    IF ids = <<>> THEN acc
    ELSE LET courier_id == Head(ids)
             state == acc.states[courier_id]
         IN IF IsFree(state, current_time)
            THEN LET flip == JustBecameFree(state, current_time)
                     states2 == IF flip
                                THEN [acc.states EXCEPT ![courier_id].status = "AVAILABLE"]
                                ELSE acc.states
                     log2 == IF flip
                             THEN log_state_transition(acc.log, current_time,
                                      courier_id, "AVAILABLE", "completed_delivery")
                             ELSE acc.log
                 IN AvailableLoop(Tail(ids), current_time,
                        [states |-> states2,
                         available |-> Append(acc.available,
                             [courier_id |-> courier_id,
                              rider_lat |-> state.lat,
                              rider_lng |-> state.lng]),
                         log |-> log2])
            ELSE AvailableLoop(Tail(ids), current_time, acc)

get_available_couriers(current_time, states, log) ==
    AvailableLoop(SortedSeq(DOMAIN states), current_time,
                  [states |-> states, available |-> <<>>, log |-> log])

\* line 103 on a dict that never raises
RaisesKeyErrorNever(courier_id, states) == FALSE

\* line 103: courier_states[courier_id] raises KeyError for an id that is not
\* a key, before anything is written; no caller catches it
RaisesKeyError(courier_id, states) == courier_id \notin DOMAIN states

\* line 104 adding the task to the time the courier is busy until
UpdateAccumulating(courier_id, states, dispatch_time, delivery_location, task_duration) ==
    [states EXCEPT ![courier_id] =
        [status |-> "BUSY",
         becomes_available_at |->
             Max2(states[courier_id].becomes_available_at, dispatch_time)
                 + task_duration,
         lat |-> delivery_location[1],
         lng |-> delivery_location[2]]]

\* lines 103-106 writing into a fresh dict in place of courier_states
UpdateFreshStore(courier_id, states, dispatch_time, delivery_location, task_duration) ==
    [c \in {courier_id} |->
        [status |-> "BUSY",
         becomes_available_at |-> dispatch_time + task_duration,
         lat |-> delivery_location[1],
         lng |-> delivery_location[2]]]

\* lines 103-106 on a store whose entries are one shared dict
UpdateAliased(courier_id, states, dispatch_time, delivery_location, task_duration) ==
    [c \in DOMAIN states |->
        [status |-> "BUSY",
         becomes_available_at |-> dispatch_time + task_duration,
         lat |-> delivery_location[1],
         lng |-> delivery_location[2]]]

\* line 104 without the task duration
UpdateWithoutDuration(courier_id, states, dispatch_time, delivery_location, task_duration) ==
    [states EXCEPT ![courier_id] =
        [status |-> "BUSY",
         becomes_available_at |-> dispatch_time,
         lat |-> delivery_location[1],
         lng |-> delivery_location[2]]]

\* lines 103-106, for a courier_id that is a key
update_courier_after_assignment(courier_id, states, dispatch_time, delivery_location, task_duration) ==
    [states EXCEPT ![courier_id] =
        [status |-> "BUSY",
         becomes_available_at |-> dispatch_time + task_duration,
         lat |-> delivery_location[1],
         lng |-> delivery_location[2]]]

get_courier_state_summary(states, current_time) ==
    LET total == Cardinality(DOMAIN states)
        available == Cardinality({c \in DOMAIN states : IsFree(states[c], current_time)})
    IN [total_couriers |-> total, available |-> available,
        busy |-> total - available,
        utilization |-> Quotient(total - available, total)]

\* lines 129-139 with the status update of get_available_couriers added
StatesAfterSummaryLazy(states, current_time) ==
    [c \in DOMAIN states |->
        IF JustBecameFree(states[c], current_time)
        THEN [states[c] EXCEPT !.status = "AVAILABLE"]
        ELSE states[c]]

\* lines 129-139: the store after get_courier_state_summary, which only reads
StatesAfterSummary(states, current_time) == states

\* ------------------------------------------------- scipy linear_sum_assignment
\* A matching is a set of <<row, col>> pairs.  The solver pairs min(n, m) rows
\* and columns, each at most once, with minimum total cost; which optimum it
\* returns among several is left open.
FullMatchings(n, m) ==
    IF n <= m
    THEN {{<<i, f[i]>> : i \in 1..n} :
             f \in {g \in [1..n -> 1..m] :
                       \A a, b \in 1..n : a # b => g[a] # g[b]}}
    ELSE {{<<f[j], j>> : j \in 1..m} :
             f \in {g \in [1..m -> 1..n] :
                       \A a, b \in 1..m : a # b => g[a] # g[b]}}

\* Total cost of a matching, kept in two words so that several 1e9 cells do
\* not leave the integer range: hi counts the cells that hold SENTINEL_COST,
\* lo adds the others (every real cost of the model is far below 1e9).
RECURSIVE MatchingLo(_, _)
MatchingLo(M, cost_matrix) ==
    IF M = {} THEN 0
    ELSE LET p == CHOOSE q \in M : TRUE
             c == cost_matrix[p[1]][p[2]]
         IN (IF c >= SENTINEL_COST THEN 0 ELSE c) + MatchingLo(M \ {p}, cost_matrix)

MatchingHi(M, cost_matrix) ==
    Cardinality({p \in M : cost_matrix[p[1]][p[2]] >= SENTINEL_COST})

CostLeq(M1, M2, cost_matrix) ==
    \/ MatchingHi(M1, cost_matrix) < MatchingHi(M2, cost_matrix)
    \/ /\ MatchingHi(M1, cost_matrix) = MatchingHi(M2, cost_matrix)
       /\ MatchingLo(M1, cost_matrix) <= MatchingLo(M2, cost_matrix)

\* a solver that returns some full matching without minimising its cost
AnyFullMatching(cost_matrix, n, m) == FullMatchings(n, m)

linear_sum_assignment(cost_matrix, n, m) ==
    {M \in FullMatchings(n, m) :
        \A M2 \in FullMatchings(n, m) : CostLeq(M, M2, cost_matrix)}

\* ------------------------------------------------------------- Tier1Baseline
\* line 93 moved out of the inner loop: only the last column is written, the
\* other cells keep the 0.0 of np.zeros
CostMatrixLastColumn(orders, couriers, lookup) ==
    [i \in 1..Len(orders) |->
        [j \in 1..Len(couriers) |->
            IF orders[i].order_id \notin DOMAIN lookup
            THEN SENTINEL_COST
            ELSE IF j = Len(couriers)
            THEN compute_cost(couriers[j], orders[i], lookup[orders[i].order_id])
            ELSE 0]]

\* lines 70-93: the |orders| x |couriers| cost matrix
CostMatrix(orders, couriers, lookup) ==
    [i \in 1..Len(orders) |->
        [j \in 1..Len(couriers) |->
            IF orders[i].order_id \notin DOMAIN lookup
            THEN SENTINEL_COST
            ELSE compute_cost(couriers[j], orders[i], lookup[orders[i].order_id])]]

\* lines 98-113 without the test of line 106: sentinel pairs are returned
RECURSIVE BuildAssignmentsKeepSentinel(_, _, _, _, _)
BuildAssignmentsKeepSentinel(rows, M, cost_matrix, orders, couriers) ==
    IF rows = <<>> THEN <<>>
    ELSE LET order_idx == Head(rows)
             courier_idx == (CHOOSE p \in M : p[1] = order_idx)[2]
         IN << [order |-> orders[order_idx],
                courier |-> couriers[courier_idx],
                cost |-> cost_matrix[order_idx][courier_idx]] >>
            \o BuildAssignmentsKeepSentinel(Tail(rows), M, cost_matrix, orders, couriers)

\* lines 98-113: the matched pairs in row order, sentinel pairs dropped
RECURSIVE BuildAssignments(_, _, _, _, _)
BuildAssignments(rows, M, cost_matrix, orders, couriers) ==
    IF rows = <<>> THEN <<>>
    ELSE LET order_idx == Head(rows)
             courier_idx == (CHOOSE p \in M : p[1] = order_idx)[2]
             cost == cost_matrix[order_idx][courier_idx]
             rest == BuildAssignments(Tail(rows), M, cost_matrix, orders, couriers)
         IN IF cost >= SENTINEL_COST THEN rest
            ELSE << [order |-> orders[order_idx],
                     courier |-> couriers[courier_idx],
                     cost |-> cost] >> \o rest

\* the lists Tier1Baseline.make_assignments can return
Tier1MakeAssignments(orders, couriers, lookup) ==
    IF orders = <<>> \/ couriers = <<>> THEN {<<>>}
    ELSE LET cost_matrix == CostMatrix(orders, couriers, lookup)
         IN {BuildAssignments(SortedSeq({p[1] : p \in M}), M, cost_matrix,
                              orders, couriers) :
                M \in linear_sum_assignment(cost_matrix, Len(orders), Len(couriers))}

\* --------------------------------------------------------- Tier3OnlineGreedy
\* lines 311-324 with <= in line 322: the last courier of smallest cost
RECURSIVE ClosestCourierLastTie(_, _, _, _)
ClosestCourierLastTie(couriers, order, order_location, best) ==
    IF couriers = <<>> THEN best
    ELSE LET cost == compute_cost(Head(couriers), order, order_location)
         IN ClosestCourierLastTie(Tail(couriers), order, order_location,
                IF best = None \/ cost <= best.cost
                THEN [courier |-> Head(couriers), cost |-> cost]
                ELSE best)

\* lines 311-324: the first courier of strictly smallest cost; best = None
\* stands for best_courier is None with min_cost = inf
RECURSIVE ClosestCourier(_, _, _, _)
ClosestCourier(couriers, order, order_location, best) ==
    IF couriers = <<>> THEN best
    ELSE LET cost == compute_cost(Head(couriers), order, order_location)
         IN ClosestCourier(Tail(couriers), order, order_location,
                IF best = None \/ cost < best.cost
                THEN [courier |-> Head(couriers), cost |-> cost]
                ELSE best)

assign_single_order(order, couriers, lookup) ==
    IF couriers = <<>> THEN None
    ELSE IF order.order_id \notin DOMAIN lookup THEN None
    ELSE ClosestCourier(couriers, order, lookup[order.order_id], None)

\* lines 345-355 without line 355: the chosen courier is never marked as used
RECURSIVE GreedyLoopNoMark(_, _, _, _, _)
GreedyLoopNoMark(orders, remaining_couriers, used_couriers, lookup, assignments) ==
    IF orders = <<>> THEN assignments
    ELSE LET NotUsed(c) == c.courier_id \notin used_couriers
             available == SelectSeq(remaining_couriers, NotUsed)
         IN IF available = <<>> THEN assignments
            ELSE LET result == assign_single_order(Head(orders), available, lookup)
                 IN IF result = None
                    THEN GreedyLoopNoMark(Tail(orders), remaining_couriers,
                                          used_couriers, lookup, assignments)
                    ELSE GreedyLoopNoMark(Tail(orders), remaining_couriers,
                             used_couriers, lookup,
                             Append(assignments,
                                    [order |-> Head(orders),
                                     courier |-> result.courier,
                                     cost |-> result.cost]))

\* lines 349-350 with the pass ending at the first order without a location
RECURSIVE GreedyLoopStopOnMiss(_, _, _, _, _)
GreedyLoopStopOnMiss(orders, remaining_couriers, used_couriers, lookup, assignments) ==
    IF orders = <<>> THEN assignments
    ELSE LET NotUsed(c) == c.courier_id \notin used_couriers
             available == SelectSeq(remaining_couriers, NotUsed)
         IN IF available = <<>> THEN assignments
            ELSE LET result == assign_single_order(Head(orders), available, lookup)
                 IN IF result = None
                    THEN assignments
                    ELSE GreedyLoopStopOnMiss(Tail(orders), remaining_couriers,
                             used_couriers \cup {result.courier.courier_id},
                             lookup,
                             Append(assignments,
                                    [order |-> Head(orders),
                                     courier |-> result.courier,
                                     cost |-> result.cost]))

\* lines 345-355: the loop over the waiting orders
RECURSIVE GreedyLoop(_, _, _, _, _)
GreedyLoop(orders, remaining_couriers, used_couriers, lookup, assignments) ==
    IF orders = <<>> THEN assignments
    ELSE LET NotUsed(c) == c.courier_id \notin used_couriers
             available == SelectSeq(remaining_couriers, NotUsed)
         IN IF available = <<>> THEN assignments
            ELSE LET result == assign_single_order(Head(orders), available, lookup)
                 IN IF result = None
                    THEN GreedyLoop(Tail(orders), remaining_couriers,
                                    used_couriers, lookup, assignments)
                    ELSE GreedyLoop(Tail(orders), remaining_couriers,
                             used_couriers \cup {result.courier.courier_id},
                             lookup,
                             Append(assignments,
                                    [order |-> Head(orders),
                                     courier |-> result.courier,
                                     cost |-> result.cost]))

Tier3MakeAssignments(orders, couriers, lookup) ==
    {GreedyLoop(orders, couriers, {}, lookup, <<>>)}

\* ------------------------------------------------------------- Tier2BatchVRP
\* A centroid is the mean of a group of pickup locations, kept as the sums
\* and the count: [sx, sy, n] stands for (sx / n, sy / n).
Centroid(group, locs) ==
    [sx |-> SeqSum([i \in 1..Len(group) |-> locs[group[i]][1]]),
     sy |-> SeqSum([i \in 1..Len(group) |-> locs[group[i]][2]]),
     n |-> Len(group)]

\* n^2 times the squared distance between point (x, y) and a centroid
ScaledSqDist(x, y, c) ==
    (c.n * x - c.sx) * (c.n * x - c.sx) + (c.n * y - c.sy) * (c.n * y - c.sy)

\* np.linalg.norm(p - a) < np.linalg.norm(p - b), by cross-multiplication
Closer(x, y, a, b) ==
    ScaledSqDist(x, y, a) * b.n * b.n < ScaledSqDist(x, y, b) * a.n * a.n

\* np.argmin over the centroids: the first index of smallest distance
NearestCentroid(x, y, centroids) ==
    CHOOSE c \in 1..Len(centroids) :
        /\ \A d \in 1..Len(centroids) : ~Closer(x, y, centroids[d], centroids[c])
        /\ \A d \in 1..(c - 1) : Closer(x, y, centroids[c], centroids[d])

\* scipy kmeans(obs, k): a code book of at most k centroids, each the mean of
\* one group of a partition of the observations (empty groups are dropped);
\* the initial centroids are drawn at random, so the partition is left open.
KMeansCodeBooks(locs, k) ==
    {LET used == SortedSeq({g[i] : i \in 1..Len(locs)})
         Group(label) == SortedSeq({i \in 1..Len(locs) : g[i] = label})
     IN [c \in 1..Len(used) |-> Centroid(Group(used[c]), locs)] :
        g \in [1..Len(locs) -> 1..k]}

\* lines 172-197: the (clusters, centroids) the clustering step can produce;
\* clusters[i] is the 1-based cluster index of valid order i
Clusterings(locs, n_couriers, bundle) ==
    LET n_valid == Len(locs)
        desired_k == (n_valid + bundle - 1) \div bundle
        k == Max2(1, Min2(n_couriers, desired_k))
    IN IF k = 1
       THEN {[clusters |-> [i \in 1..n_valid |-> 1],
              centroids |-> <<Centroid(SortedSeq(1..n_valid), locs)>>]}
       ELSE IF k >= n_valid
       THEN {[clusters |-> [i \in 1..n_valid |-> i],
              centroids |-> [i \in 1..n_valid |-> Centroid(<<i>>, locs)]]}
       ELSE {[clusters |-> [i \in 1..n_valid |->
                               NearestCentroid(locs[i][1], locs[i][2], cb)],
              centroids |-> cb] : cb \in KMeansCodeBooks(locs, k)}

\* lines 199-226 without the matching: every cluster gets the first courier
ClusterToCourierFirst(unique_clusters, centroids, couriers) ==
    {[u \in Range(unique_clusters) |-> 1]}

\* lines 199-226: cluster_to_courier, a function from the unique cluster
\* indices to positions in available_couriers.  The matching is a minimum of
\* the sum of the courier-to-centroid distances.  With a single cluster it is
\* the closest courier; with centroids on grid points the distances are
\* integers and the minimum is computed; otherwise (centroids that are means
\* of several points) every one-to-one matching is admitted.
ClusterToCourier(unique_clusters, centroids, couriers) ==
    LET n_clusters == Len(unique_clusters)
        n_couriers == Len(couriers)
        AsMap(M) == [u \in Range(unique_clusters) |->
                        (CHOOSE p \in M : unique_clusters[p[1]] = u)[2]]
    IN IF n_clusters = 1
       THEN LET c == centroids[unique_clusters[1]]
                d(j) == ScaledSqDist(couriers[j].rider_lat, couriers[j].rider_lng, c)
            IN {[u \in Range(unique_clusters) |-> j] :
                   j \in {a \in 1..n_couriers : \A b \in 1..n_couriers : d(a) <= d(b)}}
       ELSE IF \A i \in 1..n_clusters : centroids[unique_clusters[i]].n = 1
       THEN LET cluster_cost_matrix ==
                    [i \in 1..n_clusters |-> [j \in 1..n_couriers |->
                        euclidean_distance(couriers[j].rider_lat, couriers[j].rider_lng,
                                           centroids[unique_clusters[i]].sx,
                                           centroids[unique_clusters[i]].sy)]]
            IN {AsMap(M) : M \in linear_sum_assignment(cluster_cost_matrix,
                                                       n_clusters, n_couriers)}
       ELSE {AsMap(M) : M \in FullMatchings(n_clusters, n_couriers)}

\* lines 231-262: the orders of each cluster, cluster by cluster
RECURSIVE RouteClusters(_, _, _, _, _, _)
RouteClusters(unique_clusters, clusters, cluster_to_courier, valid_orders, couriers, lookup) ==
    IF unique_clusters = <<>> THEN <<>>
    ELSE LET cluster_idx == Head(unique_clusters)
             members == SortedSeq({i \in 1..Len(valid_orders) : clusters[i] = cluster_idx})
             rest == RouteClusters(Tail(unique_clusters), clusters, cluster_to_courier,
                                   valid_orders, couriers, lookup)
         IN IF cluster_idx \notin DOMAIN cluster_to_courier THEN rest
            ELSE LET courier == couriers[cluster_to_courier[cluster_idx]]
                 IN [i \in 1..Len(members) |->
                        [order |-> valid_orders[members[i]],
                         courier |-> courier,
                         cost |-> compute_cost(courier, valid_orders[members[i]],
                                     lookup[valid_orders[members[i]].order_id])]]
                    \o rest

\* lines 157-165: the waiting orders that have a location, and the locations
ValidOrders(orders, lookup) ==
    LET InLookup(o) == o.order_id \in DOMAIN lookup
    IN SelectSeq(orders, InLookup)

OrderLocations(valid_orders, lookup) ==
    [i \in 1..Len(valid_orders) |->
        <<lookup[valid_orders[i].order_id].sender_lat,
          lookup[valid_orders[i].order_id].sender_lng>>]

\* lines 199-262: the lists that follow from one outcome cl of the clustering
Tier2Routes(cl, valid_orders, couriers, lookup) ==
    LET unique_clusters == SortedSeq(Range(cl.clusters))
    IN {RouteClusters(unique_clusters, cl.clusters, c2c, valid_orders,
                      couriers, lookup) :
           c2c \in ClusterToCourier(unique_clusters, cl.centroids, couriers)}

\* the lists Tier2BatchVRP.make_assignments can return
Tier2MakeAssignments(orders, couriers, lookup, bundle) ==
    IF orders = <<>> \/ couriers = <<>> THEN {<<>>}
    ELSE LET valid_orders == ValidOrders(orders, lookup)
         IN IF valid_orders = <<>> THEN {<<>>}
            ELSE UNION {Tier2Routes(cl, valid_orders, couriers, lookup) :
                   cl \in Clusterings(OrderLocations(valid_orders, lookup),
                                      Len(couriers), bundle)}

\* the strategy object the driver was configured with
make_assignments(strat, bundle, orders, couriers, lookup) ==
    CASE strat = "Tier1Baseline" -> Tier1MakeAssignments(orders, couriers, lookup)
      [] strat = "Tier2BatchVRP" -> Tier2MakeAssignments(orders, couriers, lookup, bundle)
      [] strat = "Tier3OnlineGreedy" -> Tier3MakeAssignments(orders, couriers, lookup)

\* ------------------------------------------------------------------ logger.py
\* lines 122-125 with the acceptance rate taken over the batch
LogCycleSummaryOverBatch(log, dispatch_time, n_orders, n_couriers, n_proposed, n_accepted, n_rejections, total_cost, agreement_rate) ==
    Append(log, [dispatch_time |-> dispatch_time,
                 num_orders_in_batch |-> n_orders,
                 num_available_couriers |-> n_couriers,
                 supply_demand_ratio |-> Quotient(n_couriers, n_orders),
                 num_proposed_assignments |-> n_proposed,
                 num_accepted_assignments |-> n_accepted,
                 num_rejections |-> n_rejections,
                 assignment_rate |-> Quotient(n_accepted, n_orders),
                 acceptance_rate |-> Quotient(n_accepted, n_orders),
                 total_cost_of_cycle |-> total_cost,
                 avg_cost_per_assignment |-> Quotient(total_cost, n_accepted),
                 agreement_rate_with_actual |-> agreement_rate])

\* lines 106-135: the row of one cycle
log_cycle_summary(log, dispatch_time, n_orders, n_couriers, n_proposed, n_accepted, n_rejections, total_cost, agreement_rate) ==
    Append(log, [dispatch_time |-> dispatch_time,
                 num_orders_in_batch |-> n_orders,
                 num_available_couriers |-> n_couriers,
                 supply_demand_ratio |-> Quotient(n_couriers, n_orders),
                 num_proposed_assignments |-> n_proposed,
                 num_accepted_assignments |-> n_accepted,
                 num_rejections |-> n_rejections,
                 assignment_rate |-> Quotient(n_accepted, n_orders),
                 acceptance_rate |-> Quotient(n_accepted, n_proposed),
                 total_cost_of_cycle |-> total_cost,
                 avg_cost_per_assignment |-> Quotient(total_cost, n_accepted),
                 agreement_rate_with_actual |-> agreement_rate])

\* the courier id column holds 0 where the code writes None
log_assignment(log, dispatch_time, order, courier, cost, is_assigned, was_accepted, actual_courier_id, is_match, n_orders, n_couriers) ==
    Append(log, [dispatch_time |-> dispatch_time,
                 order_id |-> order.order_id,
                 baseline_assigned_courier_id |->
                     IF courier = None THEN 0 ELSE courier.courier_id,
                 baseline_cost |-> cost,
                 is_assigned_by_baseline |-> is_assigned,
                 was_accepted |-> was_accepted,
                 actual_assigned_courier_id |-> actual_courier_id,
                 is_match_with_actual |-> is_match,
                 num_orders_in_batch |-> n_orders,
                 num_couriers_in_pool |-> n_couriers])

\* ------------------------------------------------------------ the driver loop
\* line 285 without .sort(): the distinct times in order of first appearance
RECURSIVE UniqueUnsorted(_)
UniqueUnsorted(table) ==
    IF table = <<>> THEN <<>>
    ELSE LET n == Len(table)
             before == UniqueUnsorted(SubSeq(table, 1, n - 1))
         IN IF table[n].dispatch_time \in Range(before) THEN before
            ELSE Append(before, table[n].dispatch_time)

\* lines 285: dispatch_waybill['dispatch_time'].unique().sort().to_list()
UniqueSorted(table) == SortedSeq({table[i].dispatch_time : i \in 1..Len(table)})

\* line 332 with <= in the filter: the rows of earlier moments come again
WaitingOrdersUpTo(table, dispatch_time) ==
    LET UpToMoment(row) == row.dispatch_time <= dispatch_time
    IN SelectSeq(table, UpToMoment)

\* lines 332-333: the rows of one dispatch moment, in table order
WaitingOrdersAt(table, dispatch_time) ==
    LET AtMoment(row) == row.dispatch_time = dispatch_time
    IN SelectSeq(table, AtMoment)

\* lines 445-452: the first proposal that names the order, or None
RECURSIVE FindProposal(_, _)
FindProposal(proposals, order_id) ==
    IF proposals = <<>> THEN None
    ELSE IF Head(proposals).order.order_id = order_id THEN Head(proposals)
    ELSE FindProposal(Tail(proposals), order_id)

\* lines 426-474: one pass of the logging loop; acc = [log, num_matches]
RECURSIVE LogOrders(_, _, _, _, _, _, _, _)
LogOrders(orders, lookup, proposals, assigned_order_ids, dispatch_time, n_orders, n_couriers, acc) ==
    IF orders = <<>> THEN acc
    ELSE LET order == Head(orders)
             order_id == order.order_id
             rest == Tail(orders)
         IN IF order_id \notin DOMAIN lookup
            THEN LogOrders(rest, lookup, proposals, assigned_order_ids,
                           dispatch_time, n_orders, n_couriers, acc)
            ELSE LET found == FindProposal(proposals, order_id)
                     is_assigned == found # None
                     was_accepted == is_assigned /\ order_id \in assigned_order_ids
                     actual_courier_id == lookup[order_id].actual_courier_id
                     is_match == /\ is_assigned
                                 /\ was_accepted
                                 /\ found.courier.courier_id = actual_courier_id
                 IN LogOrders(rest, lookup, proposals, assigned_order_ids,
                        dispatch_time, n_orders, n_couriers,
                        [log |-> log_assignment(acc.log, dispatch_time, order,
                                    IF is_assigned THEN found.courier ELSE None,
                                    IF is_assigned THEN found.cost ELSE 0,
                                    is_assigned, was_accepted, actual_courier_id,
                                    is_match, n_orders, n_couriers),
                         num_matches |-> acc.num_matches + (IF is_match THEN 1 ELSE 0)])

\* the order details of the waybill table, fixed per order id
WaybillRow(order_id) ==
    [sender_lat |-> Points[((order_id - 1) % Len(Points)) + 1][1],
     sender_lng |-> Points[((order_id - 1) % Len(Points)) + 1][2],
     recipient_lat |-> Points[(order_id % Len(Points)) + 1][1],
     recipient_lng |-> Points[(order_id % Len(Points)) + 1][2],
     actual_courier_id |-> ((order_id - 1) % NumCouriers) + 1,
     platform_order_time |-> 0]

\* the dispatch_rider rows of the first dispatch moment
FirstSnapshots(first_dispatch_time) ==
    {[c \in CourierIds |->
         [courier_id |-> c,
          courier_waybills |-> w[c],
          dispatch_time |-> first_dispatch_time,
          rider_lat |-> Points[((c - 1) % Len(Points)) + 1][1],
          rider_lng |-> Points[((c - 1) % Len(Points)) + 1][2]]] :
        w \in [CourierIds -> WaybillStrings]}

WaybillRows == [dispatch_time : TimeStamps, order_id : OrderIds]

\* tables of at most MaxRows distinct rows, in any row order
WaybillTables ==
    UNION {{t \in [1..n -> WaybillRows] :
               \A a, b \in 1..n : a # b => t[a] # t[b]} : n \in 1..MaxRows}

ZeroTotals ==
    [orders_processed |-> 0, assignments_proposed |-> 0,
     assignments_accepted |-> 0, rejections |-> 0]

\* The state when the main loop is entered (lines 246-326).
Init ==
    /\ dispatch_waybill \in WaybillTables
    /\ dispatch_times = UniqueSorted(dispatch_waybill)
    /\ dispatch_rider \in FirstSnapshots(dispatch_times[1])
    /\ waybill_lookup \in {[o \in D |-> WaybillRow(o)] :
                             D \in {OrderIds, OrderIds \ {NumOrders}}}
    /\ strategy \in StrategyNames
    /\ max_bundle_size = DEFAULT_MAX_BUNDLE_SIZE
    /\ rejection_probability \in {0, GLOBAL_REJECTION_PROBABILITY, ProbOne}
    /\ courier_states = initialize_courier_states(dispatch_rider)
    /\ timeline_log = InitialTimeline(dispatch_rider)
    /\ dispatch_idx = 1
    /\ pc = "begin"
    /\ waiting_orders = <<>>
    /\ available_couriers = <<>>
    /\ proposed_assignments = <<>>
    /\ next_proposal = 1
    /\ accepted_assignments = <<>>
    /\ rejected_assignments = <<>>
    /\ cycle_total_cost = 0
    /\ totals = ZeroTotals
    /\ assignment_log = <<>>
    /\ cycle_summary_log = <<>>
    /\ courier_summary = None
    /\ last_call = None

inputs == << dispatch_waybill, dispatch_rider, waybill_lookup, strategy,
             max_bundle_size, rejection_probability, dispatch_times >>

\* lines 328-353: steps A and B of one dispatch moment, and the skip;
\* run_simulation.py line 132 also takes the summary of the store
BeginMoment ==
    /\ pc = "begin"
    /\ dispatch_idx <= Len(dispatch_times)
    /\ LET dispatch_time == dispatch_times[dispatch_idx]
           orders == WaitingOrdersAt(dispatch_waybill, dispatch_time)
           r == get_available_couriers(dispatch_time, courier_states, timeline_log)
       IN /\ waiting_orders' = orders
          /\ totals' = [totals EXCEPT !.orders_processed = @ + Len(orders)]
          /\ courier_states' = StatesAfterSummary(r.states, dispatch_time)
          /\ courier_summary' = get_courier_state_summary(r.states, dispatch_time)
          /\ available_couriers' = r.available
          /\ timeline_log' = r.log
          /\ IF Len(orders) = 0 \/ Len(r.available) = 0
             THEN /\ dispatch_idx' = dispatch_idx + 1
                  /\ pc' = "begin"
             ELSE /\ dispatch_idx' = dispatch_idx
                  /\ pc' = "assign"
    /\ UNCHANGED << inputs, last_call, proposed_assignments, next_proposal,
                    accepted_assignments, rejected_assignments,
                    cycle_total_cost, assignment_log, cycle_summary_log >>

\* lines 358-381: step C, the strategy call, and the reset of the cycle lists
MakeAssignments ==
    /\ pc = "assign"
    /\ \E result \in make_assignments(strategy, max_bundle_size, waiting_orders,
                                      available_couriers, waybill_lookup) :
          /\ proposed_assignments' = result
          /\ totals' = [totals EXCEPT !.assignments_proposed = @ + Len(result)]
    /\ next_proposal' = 1
    /\ accepted_assignments' = <<>>
    /\ rejected_assignments' = <<>>
    /\ cycle_total_cost' = 0
    /\ pc' = "process"
    /\ UNCHANGED << inputs, last_call, courier_summary, dispatch_idx,
                    courier_states, waiting_orders, available_couriers,
                    assignment_log, cycle_summary_log, timeline_log >>

\* line 385 with the comparison turned round
RejectedFlipped(random, probability) == random >= probability

\* line 385 with <= in place of <
RejectedInclusive(random, probability) == random <= probability

\* line 385: random.random() < GLOBAL_REJECTION_PROBABILITY
Rejected(random, probability) == random < probability

\* lines 395-404 moved out of the else branch
StatesAfterTrialDedented(rejected, a, states, dispatch_time, lookup) ==
    update_courier_after_assignment(
        a.courier.courier_id, states, dispatch_time,
        << lookup[a.order.order_id].recipient_lat,
           lookup[a.order.order_id].recipient_lng >>,
        AVERAGE_TASK_DURATION)

\* lines 385-404: the store after the trial of proposal a
StatesAfterTrial(rejected, a, states, dispatch_time, lookup) ==
    IF rejected THEN states
    ELSE update_courier_after_assignment(
             a.courier.courier_id, states, dispatch_time,
             << lookup[a.order.order_id].recipient_lat,
                lookup[a.order.order_id].recipient_lng >>,
             AVERAGE_TASK_DURATION)

\* lines 383-404: one iteration of the accept/reject loop
ProcessProposal ==
    /\ pc = "process"
    /\ next_proposal <= Len(proposed_assignments)
    /\ LET a == proposed_assignments[next_proposal]
           dispatch_time == dispatch_times[dispatch_idx]
       IN \E random \in RandomValues :
            /\ ~RaisesKeyError(a.courier.courier_id, courier_states)
            /\ courier_states' = StatesAfterTrial(
                   Rejected(random, rejection_probability), a, courier_states,
                   dispatch_time, waybill_lookup)
            /\ IF Rejected(random, rejection_probability)
               THEN /\ rejected_assignments' = Append(rejected_assignments, a)
                    /\ totals' = [totals EXCEPT !.rejections = @ + 1]
                    /\ UNCHANGED << accepted_assignments, cycle_total_cost,
                                    timeline_log >>
               ELSE /\ accepted_assignments' = Append(accepted_assignments, a)
                    /\ cycle_total_cost' = cycle_total_cost + a.cost
                    /\ totals' = [totals EXCEPT !.assignments_accepted = @ + 1]
                    /\ timeline_log' = log_state_transition(timeline_log,
                           dispatch_time, a.courier.courier_id, "BUSY",
                           "assigned_order")
                    /\ UNCHANGED rejected_assignments
    /\ next_proposal' = next_proposal + 1
    /\ UNCHANGED << inputs, last_call, courier_summary, dispatch_idx, pc,
                    waiting_orders, available_couriers, proposed_assignments,
                    assignment_log, cycle_summary_log >>

\* lines 406-484: step F, the assignment rows and the cycle summary
LogMetrics ==
    /\ pc = "process"
    /\ next_proposal > Len(proposed_assignments)
    /\ LET dispatch_time == dispatch_times[dispatch_idx]
           n_orders == Len(waiting_orders)
           n_couriers == Len(available_couriers)
           assigned_order_ids == {accepted_assignments[i].order.order_id :
                                     i \in 1..Len(accepted_assignments)}
           r == LogOrders(waiting_orders, waybill_lookup, proposed_assignments,
                          assigned_order_ids, dispatch_time, n_orders, n_couriers,
                          [log |-> assignment_log, num_matches |-> 0])
       IN /\ assignment_log' = r.log
          /\ cycle_summary_log' = log_cycle_summary(cycle_summary_log,
                 dispatch_time, n_orders, n_couriers, Len(proposed_assignments),
                 Len(accepted_assignments), Len(rejected_assignments),
                 cycle_total_cost, Quotient(r.num_matches, n_orders))
    /\ dispatch_idx' = dispatch_idx + 1
    /\ pc' = "begin"
    /\ UNCHANGED << inputs, last_call, courier_summary, courier_states,
                    waiting_orders, available_couriers, proposed_assignments,
                    next_proposal, accepted_assignments, rejected_assignments,
                    cycle_total_cost, totals, timeline_log >>

\* lines 488-500: the loop is exhausted, the final summary is printed
Finish ==
    /\ pc = "begin"
    /\ dispatch_idx > Len(dispatch_times)
    /\ pc' = "done"
    /\ UNCHANGED << inputs, last_call, courier_summary, dispatch_idx,
                    courier_states, waiting_orders, available_couriers,
                    proposed_assignments, next_proposal, accepted_assignments,
                    rejected_assignments, cycle_total_cost, totals,
                    assignment_log, cycle_summary_log, timeline_log >>

Next == BeginMoment \/ MakeAssignments \/ ProcessProposal \/ LogMetrics \/ Finish

Spec == Init /\ [][Next]_vars

\* -------------------------------------------- the strategies on their own
\* One call of make_assignments on a batch of at most MaxBatch orders and
\* MaxBatch couriers: any pickup location per order, any order missing from
\* the lookup, any location per courier, any of the three strategies.
BundleSizes == {1, 2, DEFAULT_MAX_BUNDLE_SIZE}

BatchLookups(n) ==
    {[o \in D |-> [WaybillRow(o) EXCEPT !.sender_lat = loc[o][1],
                                        !.sender_lng = loc[o][2]]] :
        D \in SUBSET (1..n), loc \in [1..n -> PointSet]}

BatchCouriers(m) ==
    {[j \in 1..m |-> [courier_id |-> j, rider_lat |-> loc[j][1],
                      rider_lng |-> loc[j][2]]] : loc \in [1..m -> PointSet]}

StrategyInit ==
    /\ \E n \in 0..MaxBatch :
          /\ waiting_orders = [i \in 1..n |-> [dispatch_time |-> 0, order_id |-> i]]
          /\ waybill_lookup \in BatchLookups(n)
    /\ \E m \in 0..MaxBatch : available_couriers \in BatchCouriers(m)
    /\ strategy \in StrategyNames
    /\ max_bundle_size \in (IF strategy = "Tier2BatchVRP" THEN BundleSizes
                            ELSE {DEFAULT_MAX_BUNDLE_SIZE})
    /\ rejection_probability = GLOBAL_REJECTION_PROBABILITY
    /\ dispatch_waybill = waiting_orders
    /\ dispatch_times = <<0>>
    /\ dispatch_rider = <<>>
    /\ courier_states =
          [c \in 1..Len(available_couriers) |->
              [status |-> "AVAILABLE", becomes_available_at |-> 0,
               lat |-> available_couriers[c].rider_lat,
               lng |-> available_couriers[c].rider_lng]]
    /\ timeline_log = <<>>
    /\ dispatch_idx = 1
    /\ pc = "assign"
    /\ proposed_assignments = <<>>
    /\ next_proposal = 1
    /\ accepted_assignments = <<>>
    /\ rejected_assignments = <<>>
    /\ cycle_total_cost = 0
    /\ totals = ZeroTotals
    /\ assignment_log = <<>>
    /\ cycle_summary_log = <<>>
    /\ courier_summary = None
    /\ last_call = None

StrategyNext == MakeAssignments

StrategySpec == StrategyInit /\ [][StrategyNext]_vars

\* ------------------------------------------- Tier2BatchVRP where it clusters
\* One call of Tier2BatchVRP.make_assignments on a batch of KMeansBatch
\* orders at any pickup locations, the first of them in the lookup or not,
\* with 1 to NumCouriers couriers and a bundle size of 1 or KMeansBatch - 1: with two couriers or
\* more the call reaches the kmeans call of line 191, with one courier the
\* single cluster of line 179, and with an absent order and bundle size 1
\* the singleton clusters of line 183.
\* m couriers, each at the point of its id as in the first snapshot
KMeansCouriers(m) ==
    {c \in BatchCouriers(m) :
        \A j \in 1..m :
           <<c[j].rider_lat, c[j].rider_lng>> = Points[((j - 1) % Len(Points)) + 1]}

KMeansInit ==
    /\ waiting_orders = [i \in 1..KMeansBatch |-> [dispatch_time |-> 0, order_id |-> i]]
    /\ waybill_lookup \in {L \in BatchLookups(KMeansBatch) :
                             DOMAIN L \in {1..KMeansBatch, 2..KMeansBatch}}
    /\ \E m \in 1..NumCouriers : available_couriers \in KMeansCouriers(m)
    /\ strategy = "Tier2BatchVRP"
    /\ max_bundle_size \in {1, KMeansBatch - 1}
    /\ rejection_probability = GLOBAL_REJECTION_PROBABILITY
    /\ dispatch_waybill = waiting_orders
    /\ dispatch_times = <<0>>
    /\ dispatch_rider = <<>>
    /\ courier_states =
          [c \in 1..Len(available_couriers) |->
              [status |-> "AVAILABLE", becomes_available_at |-> 0,
               lat |-> available_couriers[c].rider_lat,
               lng |-> available_couriers[c].rider_lng]]
    /\ timeline_log = <<>>
    /\ dispatch_idx = 1
    /\ pc = "assign"
    /\ proposed_assignments = <<>>
    /\ next_proposal = 1
    /\ accepted_assignments = <<>>
    /\ rejected_assignments = <<>>
    /\ cycle_total_cost = 0
    /\ totals = ZeroTotals
    /\ assignment_log = <<>>
    /\ cycle_summary_log = <<>>
    /\ courier_summary = None
    /\ last_call = None

KMeansNext == MakeAssignments

KMeansSpec == KMeansInit /\ [][KMeansNext]_vars

\* ------------------------------------------------- the store on its own
\* A client makes two calls in a row on a store that holds NumCouriers
\* couriers in any state, each call any of the three operations of state.py
\* with any arguments; update_courier_after_assignment may name a courier the
\* store does not hold.
Durations == {INITIAL_BUSY_OFFSET, AVERAGE_TASK_DURATION}

DeliveryPoints == {Points[2], Points[Len(Points)]}

StoreStates ==
    {[c \in CourierIds |->
         [status |-> st[c], becomes_available_at |-> at[c],
          lat |-> Points[((c - 1) % Len(Points)) + 1][1],
          lng |-> Points[((c - 1) % Len(Points)) + 1][2]]] :
        st \in [CourierIds -> {"AVAILABLE", "BUSY"}],
        at \in [CourierIds -> {0, INITIAL_BUSY_OFFSET}]}

StoreInit ==
    /\ courier_states \in StoreStates
    /\ pc = "first_call"
    /\ last_call = None
    /\ courier_summary = None
    /\ timeline_log = <<>>
    /\ available_couriers = <<>>
    /\ dispatch_waybill = <<>>
    /\ dispatch_rider = <<>>
    /\ waybill_lookup = <<>>
    /\ strategy = "Tier1Baseline"
    /\ max_bundle_size = DEFAULT_MAX_BUNDLE_SIZE
    /\ rejection_probability = GLOBAL_REJECTION_PROBABILITY
    /\ dispatch_times = <<>>
    /\ dispatch_idx = 1
    /\ waiting_orders = <<>>
    /\ proposed_assignments = <<>>
    /\ next_proposal = 1
    /\ accepted_assignments = <<>>
    /\ rejected_assignments = <<>>
    /\ cycle_total_cost = 0
    /\ totals = ZeroTotals
    /\ assignment_log = <<>>
    /\ cycle_summary_log = <<>>

\* the variables no store operation touches
driver_state == << inputs, dispatch_idx, waiting_orders, proposed_assignments,
                   next_proposal, accepted_assignments, rejected_assignments,
                   cycle_total_cost, totals, assignment_log, cycle_summary_log >>

StoreReady == pc \in {"first_call", "second_call"}

AfterCall == IF pc = "first_call" THEN "second_call" ELSE "closed"

\* get_available_couriers(current_time, courier_states, timeline_logger)
StoreQuery ==
    /\ StoreReady
    /\ \E current_time \in TimeStamps :
          LET r == get_available_couriers(current_time, courier_states, timeline_log)
          IN /\ courier_states' = r.states
             /\ available_couriers' = r.available
             /\ timeline_log' = r.log
             /\ last_call' = [op |-> "get_available_couriers",
                              current_time |-> current_time]
    /\ pc' = AfterCall
    /\ UNCHANGED << driver_state, courier_summary >>

\* get_courier_state_summary(courier_states, current_time)
StoreSummary ==
    /\ StoreReady
    /\ \E current_time \in TimeStamps :
          /\ courier_summary' = get_courier_state_summary(courier_states, current_time)
          /\ courier_states' = StatesAfterSummary(courier_states, current_time)
          /\ last_call' = [op |-> "get_courier_state_summary",
                           current_time |-> current_time]
    /\ pc' = AfterCall
    /\ UNCHANGED << driver_state, available_couriers, timeline_log >>

\* update_courier_after_assignment(courier_id, courier_states, dispatch_time,
\* delivery_location, task_duration, timeline_logger)
StoreUpdate ==
    /\ StoreReady
    /\ \E courier_id \in CourierIds \cup {NumCouriers + 1},
          dispatch_time \in TimeStamps,
          delivery_location \in DeliveryPoints,
          task_duration \in Durations :
          /\ last_call' = [op |-> "update_courier_after_assignment",
                           courier_id |-> courier_id,
                           dispatch_time |-> dispatch_time,
                           delivery_location |-> delivery_location,
                           task_duration |-> task_duration]
          /\ IF RaisesKeyError(courier_id, courier_states)
             THEN /\ pc' = "KeyError"
                  /\ UNCHANGED << courier_states, timeline_log >>
             ELSE /\ courier_states' = update_courier_after_assignment(
                         courier_id, courier_states, dispatch_time,
                         delivery_location, task_duration)
                  /\ timeline_log' = log_state_transition(timeline_log,
                         dispatch_time, courier_id, "BUSY", "assigned_order")
                  /\ pc' = AfterCall
    /\ UNCHANGED << driver_state, available_couriers, courier_summary >>

StoreNext == StoreQuery \/ StoreSummary \/ StoreUpdate

StoreSpec == StoreInit /\ [][StoreNext]_vars

\* ------------------------------------------------------ the start of a run
\* The driver from before the store exists: the first snapshot is loaded
\* with any courier_waybills string, '' included, the store is initialized
\* from it, and the main loop runs over a table of one order per moment.
LoadStrings == WaybillStrings \cup { <<>> }

StartupSnapshots(first_dispatch_time) ==
    {[c \in CourierIds |->
         [courier_id |-> c,
          courier_waybills |-> w[c],
          dispatch_time |-> first_dispatch_time,
          rider_lat |-> Points[((c - 1) % Len(Points)) + 1][1],
          rider_lng |-> Points[((c - 1) % Len(Points)) + 1][2]]] :
        w \in [CourierIds -> LoadStrings]}

StartupTables ==
    {t \in WaybillTables : \A i \in 1..Len(t) : t[i].order_id = 1}

\* lines 246-305: the tables are loaded, no store yet
StartupInit ==
    /\ dispatch_waybill \in StartupTables
    /\ dispatch_times = UniqueSorted(dispatch_waybill)
    /\ dispatch_rider \in StartupSnapshots(dispatch_times[1])
    /\ waybill_lookup = [o \in OrderIds |-> WaybillRow(o)]
    /\ strategy \in StrategyNames
    /\ max_bundle_size = DEFAULT_MAX_BUNDLE_SIZE
    /\ rejection_probability = GLOBAL_REJECTION_PROBABILITY
    /\ courier_states = << >>
    /\ timeline_log = <<>>
    /\ dispatch_idx = 1
    /\ pc = "load"
    /\ waiting_orders = <<>>
    /\ available_couriers = <<>>
    /\ proposed_assignments = <<>>
    /\ next_proposal = 1
    /\ accepted_assignments = <<>>
    /\ rejected_assignments = <<>>
    /\ cycle_total_cost = 0
    /\ totals = ZeroTotals
    /\ assignment_log = <<>>
    /\ cycle_summary_log = <<>>
    /\ courier_summary = None
    /\ last_call = None

\* line 310: courier_states = initialize_courier_states(...)
InitializeStore ==
    /\ pc = "load"
    /\ courier_states' = initialize_courier_states(dispatch_rider)
    /\ timeline_log' = InitialTimeline(dispatch_rider)
    /\ pc' = "begin"
    /\ UNCHANGED << inputs, last_call, courier_summary, dispatch_idx,
                    waiting_orders, available_couriers, proposed_assignments,
                    next_proposal, accepted_assignments, rejected_assignments,
                    cycle_total_cost, totals, assignment_log,
                    cycle_summary_log >>

StartupNext ==
    \/ InitializeStore
    \/ BeginMoment
    \/ MakeAssignments
    \/ ProcessProposal
    \/ LogMetrics
    \/ Finish

StartupSpec == StartupInit /\ [][StartupNext]_vars

\* ===================================================================== claims
CourierIdsOf(couriers) == {couriers[i].courier_id : i \in 1..Len(couriers)}

\* the dispatch time of the moment the driver is at
Now == dispatch_times[dispatch_idx]

\* a step of the driver that queries the store (BeginMoment)
QueryStep == pc = "begin" /\ dispatch_idx <= Len(dispatch_times)

AssignedRows(c) ==
    {i \in 1..Len(timeline_log) :
        /\ timeline_log[i].courier_id = c
        /\ timeline_log[i].reason = "assigned_order"}

LastAssignedAt(c) ==
    timeline_log[CHOOSE i \in AssignedRows(c) :
                    \A j \in AssignedRows(c) : j <= i].timestamp

\* C1: a courier whose last accepted assignment was made at time T is
\* returned by the availability query at time t exactly when
\* t >= T + AVERAGE_TASK_DURATION.
C1_RoundTrip ==
    [][QueryStep =>
         \A c \in DOMAIN courier_states :
            AssignedRows(c) # {} =>
               ((c \in CourierIdsOf(available_couriers'))
                  <=> (Now >= LastAssignedAt(c) + AVERAGE_TASK_DURATION))]_vars

\* a courier assigned earlier is offered again once its task duration elapsed
C1_Witness ==
    /\ pc = "assign"
    /\ \E c \in DOMAIN courier_states :
          /\ AssignedRows(c) # {}
          /\ Now >= LastAssignedAt(c) + AVERAGE_TASK_DURATION
          /\ c \in CourierIdsOf(available_couriers)

\* C2: a status changes BUSY -> AVAILABLE only in the availability query of a
\* moment whose time is >= becomes_available_at, and AVAILABLE -> BUSY only in
\* the step that accepts a proposal naming that courier; the strategy call
\* changes no courier state.
C2_Transitions ==
    [][/\ \A c \in DOMAIN courier_states :
            /\ (courier_states[c].status = "BUSY"
                  /\ courier_states'[c].status = "AVAILABLE")
               => /\ QueryStep
                  /\ Now >= courier_states[c].becomes_available_at
            /\ (courier_states[c].status = "AVAILABLE"
                  /\ courier_states'[c].status = "BUSY")
               => /\ pc = "process"
                  /\ next_proposal <= Len(proposed_assignments)
                  /\ proposed_assignments[next_proposal].courier.courier_id = c
                  /\ accepted_assignments' =
                        Append(accepted_assignments,
                               proposed_assignments[next_proposal])
                  /\ rejected_assignments' = rejected_assignments
       /\ pc = "assign" => courier_states' = courier_states]_vars

\* a run in which a proposal was rejected, a courier was made BUSY by an
\* acceptance and a courier came back from BUSY
C2_Witness ==
    /\ totals.rejections > 0
    /\ \E i, j \in 1..Len(timeline_log) :
          /\ timeline_log[i].reason = "assigned_order"
          /\ timeline_log[j].reason = "completed_delivery"

\* C3: the availability query at time t returns exactly the couriers that are
\* AVAILABLE or whose becomes_available_at <= t, each once; every returned
\* courier is AVAILABLE afterwards; exactly the couriers that were BUSY and
\* due get one 'completed_delivery' row, and nothing else changes, so a query
\* that finds no BUSY courier due changes nothing.
C3_AvailableQuery ==
    [][QueryStep =>
         LET due == {c \in DOMAIN courier_states :
                        /\ courier_states[c].status = "BUSY"
                        /\ courier_states[c].becomes_available_at <= Now}
             added == SubSeq(timeline_log', Len(timeline_log) + 1, Len(timeline_log'))
         IN /\ CourierIdsOf(available_couriers') =
                  {c \in DOMAIN courier_states :
                      \/ courier_states[c].status = "AVAILABLE"
                      \/ courier_states[c].becomes_available_at <= Now}
            /\ Len(available_couriers') = Cardinality(CourierIdsOf(available_couriers'))
            /\ \A c \in CourierIdsOf(available_couriers') :
                  courier_states'[c].status = "AVAILABLE"
            /\ SubSeq(timeline_log', 1, Len(timeline_log)) = timeline_log
            /\ Len(added) = Cardinality(due)
            /\ \A c \in due : \E i \in 1..Len(added) :
                  added[i] = [timestamp |-> Now, courier_id |-> c,
                              event_type |-> "state_change",
                              new_state |-> "AVAILABLE",
                              reason |-> "completed_delivery"]
            /\ courier_states' =
                  [c \in DOMAIN courier_states |->
                      IF c \in due
                      THEN [courier_states[c] EXCEPT !.status = "AVAILABLE"]
                      ELSE courier_states[c]]]_vars

\* a courier that completed a task at an earlier moment is queried again, with
\* no assignment in between
C3_Witness ==
    /\ pc = "assign"
    /\ \E i \in 1..Len(timeline_log) :
          /\ timeline_log[i].reason = "completed_delivery"
          /\ timeline_log[i].timestamp < Now
          /\ timeline_log[i].courier_id \in CourierIdsOf(available_couriers)
          /\ \A j \in (i + 1)..Len(timeline_log) :
                timeline_log[j].courier_id # timeline_log[i].courier_id

\* C4 as stated: with rejection probability 1.0 nothing is accepted and no
\* step of a cycle changes any courier's state.
C4_Original ==
    [][rejection_probability = ProbOne =>
          /\ accepted_assignments' = <<>>
          /\ totals'.assignments_accepted = 0
          /\ courier_states' = courier_states]_vars

\* C4 amended: with rejection probability 1.0 nothing is accepted; no courier's
\* becomes_available_at or location changes, and a status changes only from
\* BUSY to AVAILABLE, in the availability query of a moment whose time is
\* >= becomes_available_at.
C4_RejectAll ==
    [][rejection_probability = ProbOne =>
          /\ accepted_assignments' = <<>>
          /\ totals'.assignments_accepted = 0
          /\ \A c \in DOMAIN courier_states :
                /\ courier_states'[c].becomes_available_at =
                      courier_states[c].becomes_available_at
                /\ courier_states'[c].lat = courier_states[c].lat
                /\ courier_states'[c].lng = courier_states[c].lng
                /\ courier_states'[c].status # courier_states[c].status
                   => /\ QueryStep
                      /\ courier_states[c].status = "BUSY"
                      /\ courier_states[c].becomes_available_at <= Now]_vars

\* a cycle with proposals, all rejected, has run to its end
C4_Witness ==
    /\ rejection_probability = ProbOne
    /\ pc = "process"
    /\ next_proposal > Len(proposed_assignments)
    /\ Len(proposed_assignments) > 0
    /\ Len(rejected_assignments) = Len(proposed_assignments)

\* the accept/reject loop of the current cycle has run to its end
CycleProcessed == pc = "process" /\ next_proposal > Len(proposed_assignments)

\* C5: with rejection probability 0.0, at the end of a cycle every proposal is
\* accepted and every accepted courier is BUSY with
\* becomes_available_at = dispatch_time + AVERAGE_TASK_DURATION.
C5_AcceptAll ==
    (rejection_probability = 0 /\ CycleProcessed) =>
       /\ accepted_assignments = proposed_assignments
       /\ rejected_assignments = <<>>
       /\ \A i \in 1..Len(accepted_assignments) :
             LET c == accepted_assignments[i].courier.courier_id
             IN /\ courier_states[c].status = "BUSY"
                /\ courier_states[c].becomes_available_at =
                      Now + AVERAGE_TASK_DURATION

\* a cycle with proposals, all accepted, has run to its end
C5_Witness ==
    /\ rejection_probability = 0
    /\ CycleProcessed
    /\ Len(accepted_assignments) > 0

OneToOne == strategy \in {"Tier1Baseline", "Tier3OnlineGreedy"}

\* the timeline rows of assignments accepted at an earlier moment whose task
\* is still running at the current moment
RunningTasks ==
    {i \in 1..Len(timeline_log) :
        /\ timeline_log[i].reason = "assigned_order"
        /\ timeline_log[i].timestamp < Now
        /\ Now < timeline_log[i].timestamp + AVERAGE_TASK_DURATION}

\* C6: under a one-to-one strategy, a courier whose assignment was accepted at
\* moment t is neither in the available list given to the strategy nor in its
\* proposals at a later moment t' < t + AVERAGE_TASK_DURATION.
C6_NoReofferWhileBusy ==
    (OneToOne /\ pc \in {"assign", "process"}) =>
       \A i \in RunningTasks :
          /\ timeline_log[i].courier_id \notin CourierIdsOf(available_couriers)
          /\ pc = "process" =>
                \A k \in 1..Len(proposed_assignments) :
                   proposed_assignments[k].courier.courier_id
                      # timeline_log[i].courier_id

\* a later moment makes proposals while the task of an earlier moment runs
C6_Witness ==
    /\ OneToOne
    /\ pc = "process"
    /\ Len(proposed_assignments) > 0
    /\ RunningTasks # {}

\* the moments the loop has left behind
MomentsDone == 1..(dispatch_idx - 1)

\* C7: every dispatch moment the loop has passed, skipped or not, has its
\* cycle-summary record.
C7_SummaryPerMoment ==
    pc \in {"begin", "done"} =>
       /\ Len(cycle_summary_log) = dispatch_idx - 1
       /\ \A i \in MomentsDone :
             cycle_summary_log[i].dispatch_time = dispatch_times[i]

\* C8: every waiting order of every dispatch moment the loop has passed has
\* exactly one assignment-log record.
C8_RowPerWaitingOrder ==
    pc \in {"begin", "done"} =>
       \A r \in 1..Len(dispatch_waybill) :
          (\E i \in MomentsDone : dispatch_times[i] = dispatch_waybill[r].dispatch_time)
          => Cardinality({k \in 1..Len(assignment_log) :
                 /\ assignment_log[k].dispatch_time = dispatch_waybill[r].dispatch_time
                 /\ assignment_log[k].order_id = dispatch_waybill[r].order_id}) = 1

\* C9: no strategy proposes a waiting order twice; Tier1Baseline and
\* Tier3OnlineGreedy use no courier twice and make at most
\* min(|waiting_orders|, |available_couriers|) proposals.
C9_ProposalBounds ==
    pc = "process" =>
       LET p == proposed_assignments
       IN /\ \A i, j \in 1..Len(p) :
                i # j => p[i].order.order_id # p[j].order.order_id
          /\ \A i \in 1..Len(p) :
                /\ p[i].order \in Range(waiting_orders)
                /\ p[i].courier \in Range(available_couriers)
          /\ strategy # "Tier2BatchVRP" =>
                /\ \A i, j \in 1..Len(p) :
                      i # j => p[i].courier.courier_id # p[j].courier.courier_id
                /\ Len(p) <= Min2(Len(waiting_orders), Len(available_couriers))

\* Tier2BatchVRP gives two orders to one courier
C9_Witness ==
    /\ pc = "process"
    /\ strategy = "Tier2BatchVRP"
    /\ \E i, j \in 1..Len(proposed_assignments) :
          /\ i # j
          /\ proposed_assignments[i].courier.courier_id =
                proposed_assignments[j].courier.courier_id

\* the one-to-one pairings of k orders that have a location with k couriers,
\* as sets of <<order index, courier index>>
Pairings(k) ==
    LET valid == {i \in 1..Len(waiting_orders) :
                     waiting_orders[i].order_id \in DOMAIN waybill_lookup}
    IN UNION {{{<<i, f[i]>> : i \in S} :
                 f \in {g \in [S -> 1..Len(available_couriers)] :
                           \A a, b \in S : a # b => g[a] # g[b]}} :
              S \in {T \in SUBSET valid : Cardinality(T) = k}}

RECURSIVE PairingCost(_)
PairingCost(P) ==
    IF P = {} THEN 0
    ELSE LET q == CHOOSE x \in P : TRUE
         IN compute_cost(available_couriers[q[2]], waiting_orders[q[1]],
                         waybill_lookup[waiting_orders[q[1]].order_id])
            + PairingCost(P \ {q})

ProposedTotal ==
    SeqSum([i \in 1..Len(proposed_assignments) |-> proposed_assignments[i].cost])

\* C10: the costs Tier1Baseline returns are the costs of its pairs, and their
\* total is <= the total cost of every one-to-one pairing of the same number
\* of orders and couriers of the batch.
C10_GlobalMinimum ==
    (strategy = "Tier1Baseline" /\ pc = "process") =>
       /\ \A i \in 1..Len(proposed_assignments) :
             proposed_assignments[i].cost =
                compute_cost(proposed_assignments[i].courier,
                             proposed_assignments[i].order,
                             waybill_lookup[proposed_assignments[i].order.order_id])
       /\ \A P \in Pairings(Len(proposed_assignments)) :
             ProposedTotal <= PairingCost(P)

\* a batch in which the returned pairing beats another pairing of its size
C10_Witness ==
    /\ strategy = "Tier1Baseline"
    /\ pc = "process"
    /\ Len(proposed_assignments) >= 2
    /\ \E P \in Pairings(Len(proposed_assignments)) :
          ProposedTotal < PairingCost(P)

\* C11: an order that is absent from the lookup is in no list that
\* Tier1Baseline.make_assignments returns, no returned pair carries the
\* sentinel cost, and the call returns a list whatever the batch.
C11_AbsentNeverAssigned ==
    strategy = "Tier1Baseline" =>
       /\ pc = "assign" =>
             Tier1MakeAssignments(waiting_orders, available_couriers,
                                  waybill_lookup) # {}
       /\ pc = "process" =>
             \A i \in 1..Len(proposed_assignments) :
                /\ proposed_assignments[i].order.order_id \in DOMAIN waybill_lookup
                /\ proposed_assignments[i].cost < SENTINEL_COST

\* a batch with an absent order and a courier for every order: the solver
\* matched the absent order, the pair was dropped and another was returned
C11_Witness ==
    /\ strategy = "Tier1Baseline"
    /\ pc = "process"
    /\ Len(waiting_orders) <= Len(available_couriers)
    /\ \E i \in 1..Len(waiting_orders) :
          waiting_orders[i].order_id \notin DOMAIN waybill_lookup
    /\ Len(proposed_assignments) >= 1

\* positions in waiting_orders of the orders that have a location
ValidPositions ==
    SortedSeq({i \in 1..Len(waiting_orders) :
                  waiting_orders[i].order_id \in DOMAIN waybill_lookup})

\* cost of courier j of the available list for the order of proposal k
CostFor(j, k) ==
    compute_cost(available_couriers[j], proposed_assignments[k].order,
                 waybill_lookup[proposed_assignments[k].order.order_id])

\* couriers consumed by the proposals before proposal k
Consumed(k) == {proposed_assignments[j].courier.courier_id : j \in 1..(k - 1)}

\* C12: Tier3OnlineGreedy takes the orders that have a location in the order
\* presented, while couriers remain; each gets a courier not consumed by an
\* earlier order, of minimum cost among those, the first such courier of the
\* input list on a tie.
C12_GreedyOrder ==
    (strategy = "Tier3OnlineGreedy" /\ pc = "process") =>
       LET p == proposed_assignments
       IN /\ Len(p) = Min2(Len(ValidPositions), Len(available_couriers))
          /\ \A k \in 1..Len(p) :
                /\ p[k].order = waiting_orders[ValidPositions[k]]
                /\ p[k].courier.courier_id \notin Consumed(k)
                /\ \E j \in 1..Len(available_couriers) :
                      /\ available_couriers[j] = p[k].courier
                      /\ p[k].cost = CostFor(j, k)
                      /\ \A i \in 1..Len(available_couriers) :
                            available_couriers[i].courier_id \notin Consumed(k)
                            => /\ CostFor(i, k) >= p[k].cost
                               /\ i < j => CostFor(i, k) > p[k].cost

\* two proposals, the first decided by a tie between two couriers: the
\* second order is left with the courier that lost the tie
C12_Witness ==
    /\ strategy = "Tier3OnlineGreedy"
    /\ pc = "process"
    /\ Len(proposed_assignments) >= 2
    /\ \E i \in 1..Len(available_couriers) :
          /\ available_couriers[i] # proposed_assignments[1].courier
          /\ CostFor(i, 1) = proposed_assignments[1].cost

\* the step is a call of operation op on the store
IsCall(op) == StoreReady /\ last_call' # None /\ last_call'.op = op

\* C13: update_courier_after_assignment on a courier the store holds makes
\* that courier BUSY until time + task_duration at delivery_location and
\* leaves every other courier's state, and the set of couriers, as they were.
C13_UpdateFrame ==
    [][(IsCall("update_courier_after_assignment")
          /\ last_call'.courier_id \in DOMAIN courier_states) =>
         /\ DOMAIN courier_states' = DOMAIN courier_states
         /\ \A c \in DOMAIN courier_states :
               IF c = last_call'.courier_id
               THEN /\ courier_states'[c].status = "BUSY"
                    /\ courier_states'[c].becomes_available_at =
                          last_call'.dispatch_time + last_call'.task_duration
                    /\ courier_states'[c].lat = last_call'.delivery_location[1]
                    /\ courier_states'[c].lng = last_call'.delivery_location[2]
               ELSE courier_states'[c] = courier_states[c]]_vars

\* an update was the last call, and another courier of the store is in a
\* state the update would not have produced
C13_Witness ==
    /\ last_call # None
    /\ last_call.op = "update_courier_after_assignment"
    /\ last_call.courier_id \in DOMAIN courier_states
    /\ courier_states[last_call.courier_id].status = "BUSY"
    /\ \E d \in DOMAIN courier_states :
          /\ d # last_call.courier_id
          /\ courier_states[d].status = "AVAILABLE"

\* C14: update_courier_after_assignment with a courier_id the store does not
\* hold raises: no courier state changes, no entry is added, no timeline row
\* is written, and nothing runs after the error.
C14_UnknownCourier ==
    [][/\ pc # "KeyError"
       /\ (IsCall("update_courier_after_assignment")
             /\ last_call'.courier_id \notin DOMAIN courier_states) =>
            /\ pc' = "KeyError"
            /\ courier_states' = courier_states
            /\ timeline_log' = timeline_log]_vars

\* the call with the unknown courier_id was made
C14_Witness ==
    /\ pc = "KeyError"
    /\ last_call.courier_id \notin DOMAIN courier_states

\* C15: get_courier_state_summary changes nothing in the store or the
\* timeline, a second call on the state it leaves returns the same result,
\* and so does a repetition of the call just made.
C15_SummaryReadOnly ==
    [][IsCall("get_courier_state_summary") =>
         /\ courier_states' = courier_states
         /\ timeline_log' = timeline_log
         /\ available_couriers' = available_couriers
         /\ get_courier_state_summary(courier_states', last_call'.current_time)
               = courier_summary'
         /\ last_call' = last_call => courier_summary' = courier_summary]_vars

\* the second of two calls was a summary at a time when a BUSY courier was
\* due: the courier is counted as available and is still BUSY
C15_Witness ==
    /\ pc = "closed"
    /\ last_call.op = "get_courier_state_summary"
    /\ courier_summary.available >= 1
    /\ \E c \in DOMAIN courier_states :
          /\ courier_states[c].status = "BUSY"
          /\ courier_states[c].becomes_available_at <= last_call.current_time

OrderIdsOf(list) == {list[i].order.order_id : i \in 1..Len(list)}

\* C16: the step that rejects a proposal adds it to the rejected list and to
\* the rejection count and changes neither the store nor the timeline; a
\* rejected order has that one proposal in its moment and is not accepted;
\* the waiting orders of a moment are the table rows of that moment only.
C16_RejectionNoEffect ==
    [][/\ (pc = "process" /\ rejected_assignments' # rejected_assignments) =>
             /\ rejected_assignments' =
                   Append(rejected_assignments, proposed_assignments[next_proposal])
             /\ totals'.rejections = totals.rejections + 1
             /\ courier_states' = courier_states
             /\ timeline_log' = timeline_log
             /\ proposed_assignments' = proposed_assignments
             /\ accepted_assignments' = accepted_assignments
             /\ waiting_orders' = waiting_orders
       /\ pc = "process" =>
             \A i \in 1..Len(rejected_assignments) :
                /\ Cardinality({k \in 1..Len(proposed_assignments) :
                       proposed_assignments[k].order.order_id
                          = rejected_assignments[i].order.order_id}) = 1
                /\ rejected_assignments[i].order.order_id
                      \notin OrderIdsOf(accepted_assignments)
       /\ QueryStep =>
             /\ \A i \in 1..Len(waiting_orders') :
                   /\ waiting_orders'[i].dispatch_time = Now
                   /\ \E r \in 1..Len(dispatch_waybill) :
                         dispatch_waybill[r] = waiting_orders'[i]
             /\ Len(waiting_orders') =
                   Cardinality({r \in 1..Len(dispatch_waybill) :
                                   dispatch_waybill[r].dispatch_time = Now})]_vars

\* a later moment has begun and an order rejected in the cycle before it is
\* not among its waiting orders
C16_Witness ==
    /\ pc = "assign"
    /\ dispatch_idx > 1
    /\ \E i \in 1..Len(rejected_assignments) :
          \A k \in 1..Len(waiting_orders) :
             waiting_orders[k].order_id # rejected_assignments[i].order.order_id

\* C17: the dispatch times are the distinct timestamps of the table in
\* strictly increasing order; the loop takes them one by one, each queried
\* once, its index never going back, until all are done.
C17_MomentsInOrder ==
    [][/\ \A i, j \in 1..Len(dispatch_times) :
             i < j => dispatch_times[i] < dispatch_times[j]
       /\ Range(dispatch_times) =
             {dispatch_waybill[r].dispatch_time : r \in 1..Len(dispatch_waybill)}
       /\ dispatch_times' = dispatch_times
       /\ pc # "done"
       /\ QueryStep =>
             \/ pc' = "assign" /\ dispatch_idx' = dispatch_idx
             \/ pc' = "begin" /\ dispatch_idx' = dispatch_idx + 1
       /\ pc \in {"assign", "process"} =>
             \/ pc' = "process" /\ dispatch_idx' = dispatch_idx
             \/ pc' = "begin" /\ dispatch_idx' = dispatch_idx + 1
       /\ (pc = "begin" /\ ~QueryStep) =>
             /\ pc' = "done"
             /\ dispatch_idx = Len(dispatch_times) + 1
             /\ dispatch_idx' = dispatch_idx]_vars

\* a run over a table whose rows are out of time order and repeat a time
\* has come to its end
C17_Witness ==
    /\ pc = "done"
    /\ Len(dispatch_times) >= 2
    /\ \E a, b \in 1..Len(dispatch_waybill) :
          a < b /\ dispatch_waybill[a].dispatch_time > dispatch_waybill[b].dispatch_time
    /\ \E a, b \in 1..Len(dispatch_waybill) :
          a # b /\ dispatch_waybill[a].dispatch_time = dispatch_waybill[b].dispatch_time

\* the lookups that differ from lookup in the actual courier ids at most
AltLookups(lookup) ==
    {[o \in DOMAIN lookup |-> [lookup[o] EXCEPT !.actual_courier_id = x[o]]] :
        x \in [DOMAIN lookup -> CourierIds]}

\* C18: with any other actual courier ids in the lookup, the strategy call
\* has the same lists to return, the one it returns among them, and the
\* trial of a proposal leaves the store it leaves; so two runs that differ in
\* those ids only go through the same proposals and courier states.
C18_ActualCourierHidden ==
    [][/\ pc = "assign" =>
             \A alt \in AltLookups(waybill_lookup) :
                /\ make_assignments(strategy, max_bundle_size, waiting_orders,
                                    available_couriers, alt)
                   = make_assignments(strategy, max_bundle_size, waiting_orders,
                                      available_couriers, waybill_lookup)
                /\ proposed_assignments' \in
                      make_assignments(strategy, max_bundle_size, waiting_orders,
                                       available_couriers, alt)
       /\ (pc = "process" /\ next_proposal <= Len(proposed_assignments)) =>
             \A alt \in AltLookups(waybill_lookup) :
                courier_states' =
                   StatesAfterTrial(rejected_assignments' # rejected_assignments,
                                    proposed_assignments[next_proposal],
                                    courier_states, Now, alt)
       /\ QueryStep =>
             courier_states' =
                get_available_couriers(Now, courier_states, timeline_log).states]_vars

\* an accepted proposal gave an order to a courier other than its actual one
C18_Witness ==
    /\ pc = "process"
    /\ \E i \in 1..Len(accepted_assignments) :
          accepted_assignments[i].courier.courier_id
             # waybill_lookup[accepted_assignments[i].order.order_id].actual_courier_id

\* C19: a call of make_assignments returns the one list its arguments
\* determine: for Tier3OnlineGreedy the single list of the greedy pass, for
\* Tier1Baseline a list of the solver's matching, and for Tier2BatchVRP a
\* list that follows from every code book kmeans can return for the batch,
\* whatever the state of the random generator it draws from.
C19_PureStrategies ==
    [][pc = "assign" =>
         /\ proposed_assignments' \in
               make_assignments(strategy, max_bundle_size, waiting_orders,
                                available_couriers, waybill_lookup)
         /\ strategy = "Tier3OnlineGreedy" =>
               \A r \in Tier3MakeAssignments(waiting_orders, available_couriers,
                                              waybill_lookup) :
                  proposed_assignments' = r
         /\ (strategy = "Tier2BatchVRP" /\ proposed_assignments' # <<>>) =>
               LET valid_orders == ValidOrders(waiting_orders, waybill_lookup)
               IN \A cl \in Clusterings(OrderLocations(valid_orders, waybill_lookup),
                                         Len(available_couriers), max_bundle_size) :
                     proposed_assignments' \in
                        Tier2Routes(cl, valid_orders, available_couriers,
                                    waybill_lookup)]_vars

\* the number of proposals that name courier c
BundleOf(c) ==
    Cardinality({i \in 1..Len(proposed_assignments) :
                    proposed_assignments[i].courier.courier_id = c})

\* C20: no courier is named in more than max_bundle_size of the proposals
\* of one call of Tier2BatchVRP.make_assignments.
C20_BundleLimit ==
    (strategy = "Tier2BatchVRP" /\ pc = "process") =>
       \A c \in CourierIdsOf(available_couriers) : BundleOf(c) <= max_bundle_size

\* the assignment rows written for the cycle of one dispatch moment
CycleRows(t) ==
    {i \in 1..Len(assignment_log) : assignment_log[i].dispatch_time = t}

\* the row's order was proposed and its courier is the historical one
ProposedActualCourier(row) ==
    /\ row.is_assigned_by_baseline
    /\ row.baseline_assigned_courier_id = row.actual_assigned_courier_id

\* C21: the agreement flag of an assignment row is true exactly when the
\* order was proposed and the proposed courier is the order's historical
\* courier, and the agreement rate of a cycle is the number of such orders
\* divided by the number of waiting orders
C21_AgreementFlag ==
    /\ \A i \in 1..Len(assignment_log) :
          assignment_log[i].is_match_with_actual
              <=> ProposedActualCourier(assignment_log[i])
    /\ \A k \in 1..Len(cycle_summary_log) :
          LET s == cycle_summary_log[k]
              agreeing == {i \in CycleRows(s.dispatch_time) :
                              ProposedActualCourier(assignment_log[i])}
          IN s.agreement_rate_with_actual =
                 Quotient(Cardinality(agreeing), s.num_orders_in_batch)

\* the snapshot row of courier c, and whether it shows no waybill in flight
SnapshotRow(c) ==
    dispatch_rider[CHOOSE i \in DOMAIN dispatch_rider :
                      dispatch_rider[i].courier_id = c]

NoLoad(row) == row.courier_waybills \in { <<>>, <<"[", "]">> }

\* C22: initialization creates one state per courier of the first snapshot,
\* AVAILABLE when the row shows no waybill in flight and otherwise BUSY with
\* becomes_available_at = snapshot time + 600, so that a courier that
\* starts BUSY is returned by the availability query, until its first
\* assignment, exactly at the moments whose time is >= snapshot time + 600
C22_Initialization ==
    [][/\ pc = "load" =>
            /\ DOMAIN courier_states' =
                   {dispatch_rider[i].courier_id : i \in DOMAIN dispatch_rider}
            /\ \A c \in DOMAIN courier_states' :
                  LET row == SnapshotRow(c)
                      state == courier_states'[c]
                  IN /\ state.lat = row.rider_lat
                     /\ state.lng = row.rider_lng
                     /\ IF NoLoad(row)
                        THEN state.status = "AVAILABLE"
                        ELSE /\ state.status = "BUSY"
                             /\ state.becomes_available_at =
                                    row.dispatch_time + INITIAL_BUSY_OFFSET
       /\ QueryStep =>
            \A c \in DOMAIN courier_states :
               (~NoLoad(SnapshotRow(c)) /\ AssignedRows(c) = {}) =>
                  /\ c \in CourierIdsOf(available_couriers')
                        <=> Now >= dispatch_times[1] + INITIAL_BUSY_OFFSET
                  /\ courier_states[c].status = "BUSY"
                        <=> \A k \in 1..(dispatch_idx - 1) :
                               dispatch_times[k] <
                                   dispatch_times[1] + INITIAL_BUSY_OFFSET
      ]_vars

\* a courier whose row held '[7]' has come back at a later moment, next to
\* a courier whose row held the empty string and started AVAILABLE
C22_Witness ==
    /\ pc = "assign"
    /\ dispatch_idx > 1
    /\ \E c, d \in DOMAIN courier_states :
          /\ SnapshotRow(c).courier_waybills = <<"[", "7", "]">>
          /\ AssignedRows(c) = {}
          /\ c \in CourierIdsOf(available_couriers)
          /\ SnapshotRow(d).courier_waybills = <<>>
          /\ \E i \in 1..Len(timeline_log) :
                /\ timeline_log[i].courier_id = d
                /\ timeline_log[i].reason = "initialized"
                /\ timeline_log[i].new_state = "AVAILABLE"

\* C23: the courier ids of the store are those of the first snapshot for
\* the whole run: no step of the driver, whichever of the availability
\* query, the update after an acceptance and the summary it calls, removes
\* a courier from the store or adds one
C23_FixedCourierSet ==
    [][/\ DOMAIN courier_states' = DOMAIN courier_states
       /\ DOMAIN courier_states' =
              {dispatch_rider[i].courier_id : i \in DOMAIN dispatch_rider}
      ]_vars

\* the run is over, it has accepted an assignment and seen a courier come
\* back, and the store still holds every courier
C23_Witness ==
    /\ pc = "done"
    /\ \E i, j \in 1..Len(timeline_log) :
          /\ timeline_log[i].reason = "assigned_order"
          /\ timeline_log[j].reason = "completed_delivery"
    /\ courier_summary # None
    /\ DOMAIN courier_states = CourierIds

\* the rows the step appends to the timeline log for courier c
NewRowsOf(c) ==
    {i \in (Len(timeline_log) + 1)..Len(timeline_log') :
        timeline_log'[i].courier_id = c}

\* C24: the timeline log holds exactly one row per change of a courier's
\* status: a step that changes the status of a courier appends one row for
\* it, with the new status and a reason among initialized, assigned_order
\* and completed_delivery, and a step that leaves the status of a courier
\* as it was appends no row for it
C24_RowPerTransition ==
    [][\A c \in DOMAIN courier_states :
          IF courier_states'[c].status # courier_states[c].status
          THEN /\ Cardinality(NewRowsOf(c)) = 1
               /\ \A i \in NewRowsOf(c) :
                     /\ timeline_log'[i].new_state = courier_states'[c].status
                     /\ timeline_log'[i].reason \in
                            {"initialized", "assigned_order", "completed_delivery"}
          ELSE NewRowsOf(c) = {}
      ]_vars

\* a / b as the pair of its terms, and 0 (0 / 1) when b is 0
Ratio(a, b) == IF b = 0 THEN [num |-> 0, den |-> 1] ELSE [num |-> a, den |-> b]

\* the step that writes the cycle summary (LogMetrics)
SummaryStep == pc = "process" /\ next_proposal > Len(proposed_assignments)

\* C25: in the cycle-summary row, accepted + rejected = proposed, the total
\* cost is the sum of the costs of the accepted assignments alone, and the
\* supply/demand ratio, assignment rate, acceptance rate and average cost
\* are couriers / orders, accepted / orders, accepted / proposed and
\* total cost / accepted, or 0 when the denominator is 0; between cycles
\* the run's total proposed = total accepted + total rejections
C25_CycleArithmetic ==
    [][/\ SummaryStep =>
            LET s == cycle_summary_log'[Len(cycle_summary_log')]
                accepted_costs == [i \in 1..Len(accepted_assignments) |->
                                      accepted_assignments[i].cost]
            IN /\ Len(cycle_summary_log') = Len(cycle_summary_log) + 1
               /\ s.num_proposed_assignments = Len(proposed_assignments)
               /\ s.num_accepted_assignments = Len(accepted_assignments)
               /\ s.num_rejections = Len(rejected_assignments)
               /\ s.num_accepted_assignments + s.num_rejections =
                      s.num_proposed_assignments
               /\ s.total_cost_of_cycle = SeqSum(accepted_costs)
               /\ s.supply_demand_ratio =
                      Ratio(s.num_available_couriers, s.num_orders_in_batch)
               /\ s.assignment_rate =
                      Ratio(s.num_accepted_assignments, s.num_orders_in_batch)
               /\ s.acceptance_rate =
                      Ratio(s.num_accepted_assignments, s.num_proposed_assignments)
               /\ s.avg_cost_per_assignment =
                      Ratio(s.total_cost_of_cycle, s.num_accepted_assignments)
       /\ pc' \in {"begin", "done"} =>
            totals'.assignments_proposed =
                totals'.assignments_accepted + totals'.rejections
      ]_vars

\* the summary rows of a cycle that proposed nothing, of a cycle with an
\* acceptance at a cost above 0, and of a cycle with only a rejection
C25_Witness ==
    \E j, k, l \in 1..Len(cycle_summary_log) :
       /\ cycle_summary_log[j].num_proposed_assignments = 0
       /\ cycle_summary_log[j].acceptance_rate = [num |-> 0, den |-> 1]
       /\ cycle_summary_log[k].num_accepted_assignments = 1
       /\ cycle_summary_log[k].total_cost_of_cycle > 0
       /\ cycle_summary_log[l].num_rejections = 1
       /\ cycle_summary_log[l].num_accepted_assignments = 0
       /\ cycle_summary_log[l].avg_cost_per_assignment = [num |-> 0, den |-> 1]

\* C26: right after the availability query of a dispatch moment, the
\* moments being visited in ascending order and the task duration being
\* positive, every courier is AVAILABLE if and only if its
\* becomes_available_at is at most the dispatch time; the summary taken at
\* that time counts as available exactly the couriers the query returned,
\* and its available and busy counts add up to the total
C26_StatusMatchesClock ==
    [][QueryStep =>
          /\ \A c \in DOMAIN courier_states' :
                courier_states'[c].status = "AVAILABLE"
                    <=> courier_states'[c].becomes_available_at <= Now
          /\ CourierIdsOf(available_couriers') =
                 {c \in DOMAIN courier_states' :
                     courier_states'[c].status = "AVAILABLE"}
          /\ courier_summary'.available = Len(available_couriers')
          /\ courier_summary'.available + courier_summary'.busy =
                 courier_summary'.total_couriers
          /\ courier_summary'.total_couriers =
                 Cardinality(DOMAIN courier_states')
      ]_vars

\* a query has just turned a courier AVAILABLE at the end of its task while
\* another courier is still BUSY with a task that ends later
C26_Witness ==
    /\ pc = "assign"
    /\ courier_summary # None
    /\ courier_summary.available = 1
    /\ courier_summary.busy >= 1
    /\ \E i \in 1..Len(timeline_log) :
          /\ timeline_log[i].reason = "completed_delivery"
          /\ timeline_log[i].timestamp = Now
          /\ AssignedRows(timeline_log[i].courier_id) # {}
    /\ \E c \in DOMAIN courier_states :
          /\ courier_states[c].status = "BUSY"
          /\ courier_states[c].becomes_available_at > Now

\* C27: Tier3OnlineGreedy passes over an order that is absent from the
\* lookup without using up a courier and without ending the pass: the
\* orders of the result are the first min(V, C) of the V waiting orders
\* that are in the lookup, in input order, C being the number of couriers
C27_AbsentSkipped ==
    (strategy = "Tier3OnlineGreedy" /\ pc = "process") =>
       LET InLookup(order) == order.order_id \in DOMAIN waybill_lookup
           present == SelectSeq(waiting_orders, InLookup)
           served == Min2(Len(present), Len(available_couriers))
       IN [k \in 1..Len(proposed_assignments) |->
              proposed_assignments[k].order] = SubSeq(present, 1, served)

\* the first waiting order is absent from the lookup, the second is not,
\* and the only courier went to the second
C27_Witness ==
    /\ strategy = "Tier3OnlineGreedy"
    /\ pc = "process"
    /\ Len(waiting_orders) = 2
    /\ Len(available_couriers) = 1
    /\ waiting_orders[1].order_id \notin DOMAIN waybill_lookup
    /\ Len(proposed_assignments) = 1
    /\ proposed_assignments[1].order = waiting_orders[2]
    /\ proposed_assignments[1].courier = available_couriers[1]

\* C28: Tier1Baseline returns a matching of maximum size of the orders that
\* are in the lookup: V of the waiting orders being in the lookup and C
\* couriers being given, every cost below the sentinel, the result holds
\* exactly min(V, C) assignments, also for a batch of more orders than
\* couriers of which some are absent from the lookup
C28_MaximumMatching ==
    (strategy = "Tier1Baseline" /\ pc = "process") =>
       LET reachable == {i \in 1..Len(waiting_orders) :
                            waiting_orders[i].order_id \in DOMAIN waybill_lookup}
       IN /\ Len(proposed_assignments) =
                 Min2(Cardinality(reachable), Len(available_couriers))
          /\ \A k \in 1..Len(proposed_assignments) :
                \E i \in reachable :
                   proposed_assignments[k].order = waiting_orders[i]

\* more orders than couriers, the first order absent from the lookup: the
\* one courier went to the second order
C28_Witness ==
    /\ strategy = "Tier1Baseline"
    /\ pc = "process"
    /\ Len(waiting_orders) > Len(available_couriers)
    /\ waiting_orders[1].order_id \notin DOMAIN waybill_lookup
    /\ Len(proposed_assignments) = Len(available_couriers)
    /\ Len(proposed_assignments) >= 1

\* the courier that proposals p give to order o
CourierGiven(p, o) ==
    p[CHOOSE k \in 1..Len(p) : p[k].order = o].courier.courier_id

\* C29: with at least one courier available, Tier2BatchVRP proposes every
\* waiting order that is in the lookup exactly once and no other order;
\* for some clustering the call can produce, two orders have the same
\* courier exactly when they are in the same cluster, so every cluster has
\* a courier, different clusters have different couriers and the orders of
\* a cluster share one; the couriers used are at most
\* min(|couriers|, max(1, ceil(V / max_bundle_size))), V being the number
\* of waiting orders in the lookup
C29_EveryOrderRouted ==
    [][(pc = "assign" /\ strategy = "Tier2BatchVRP"
           /\ available_couriers # <<>>) =>
          LET p == proposed_assignments'
              valid_orders == ValidOrders(waiting_orders, waybill_lookup)
              V == Len(valid_orders)
              used == {p[k].courier.courier_id : k \in 1..Len(p)}
              clusters_wanted ==
                  Max2(1, (V + max_bundle_size - 1) \div max_bundle_size)
          IN /\ \A i \in 1..V :
                   Cardinality({k \in 1..Len(p) : p[k].order = valid_orders[i]}) = 1
             /\ Len(p) = V
             /\ Cardinality(used) <= Min2(Len(available_couriers), clusters_wanted)
             /\ V > 0 =>
                   \E cl \in Clusterings(OrderLocations(valid_orders, waybill_lookup),
                                         Len(available_couriers), max_bundle_size) :
                      \A i, j \in 1..V :
                         cl.clusters[i] = cl.clusters[j]
                            <=> CourierGiven(p, valid_orders[i]) =
                                   CourierGiven(p, valid_orders[j])
      ]_vars

\* kmeans split a batch of three orders in two clusters: two couriers are
\* used, one of them for two orders
C29_Witness ==
    /\ strategy = "Tier2BatchVRP"
    /\ pc = "process"
    /\ max_bundle_size = 2
    /\ Len(proposed_assignments) = 3
    /\ Len(available_couriers) = 2
    /\ Cardinality({proposed_assignments[k].courier.courier_id :
                       k \in 1..Len(proposed_assignments)}) = 2

\* positions in accepted_assignments of the proposals that name courier c
AcceptedFor(c) ==
    {i \in 1..Len(accepted_assignments) :
        accepted_assignments[i].courier.courier_id = c}

\* C30: when several proposals that name one courier are accepted in one
\* dispatch moment, every acceptance overwrites the courier's entry: after
\* the cycle the courier is BUSY until dispatch time + task duration,
\* whatever the number of orders accepted, and stands at the delivery
\* location of the last accepted order of the bundle
C30_BundleOverwrites ==
    CycleProcessed =>
       \A c \in DOMAIN courier_states :
          Cardinality(AcceptedFor(c)) >= 2 =>
             LET last == CHOOSE i \in AcceptedFor(c) :
                            \A j \in AcceptedFor(c) : j <= i
                 order_id == accepted_assignments[last].order.order_id
             IN /\ courier_states[c].status = "BUSY"
                /\ courier_states[c].becomes_available_at =
                       Now + AVERAGE_TASK_DURATION
                /\ courier_states[c].lat = waybill_lookup[order_id].recipient_lat
                /\ courier_states[c].lng = waybill_lookup[order_id].recipient_lng

\* a courier has accepted a bundle of two orders with different delivery
\* locations in one moment
C30_Witness ==
    /\ CycleProcessed
    /\ \E c \in DOMAIN courier_states :
          \E i, j \in AcceptedFor(c) :
             /\ i < j
             /\ waybill_lookup[accepted_assignments[i].order.order_id].recipient_lat
                   # waybill_lookup[accepted_assignments[j].order.order_id].recipient_lat
             /\ Cardinality({k \in 1..Len(timeline_log) :
                               /\ timeline_log[k].courier_id = c
                               /\ timeline_log[k].timestamp = Now
                               /\ timeline_log[k].reason = "assigned_order"}) = 2

====
